---- MODULE Spec2Model ----
(***************************************************************************)
(* Event-reduction state machine of the meeting note taker: the webhook    *)
(* receiver (src/src/routes/webhookRoutes.js) folding vendor lifecycle     *)
(* events into the session records kept by MeetingService                  *)
(* (src/unnamed/part_005), with sessions registered by addMeeting          *)
(* (src/unnamed/part_001).                                                 *)
(*                                                                         *)
(* A session record is identified by its position in `meetings`, which is  *)
(* the order of creation (the insertion order of the in-memory Map and the *)
(* created_at order of the table).  0 stands for "no meeting" (null).      *)
(***************************************************************************)
EXTENDS Integers, Sequences, FiniteSets, TLC

VARIABLES meetings, deploying, issued, useDatabase, nEvents, response, request,
          inflight, before, generator, store

vars == <<meetings, deploying, issued, useDatabase, nEvents, response, request,
          inflight, before, generator, store>>

\* Bounds of the model.
MaxMeetings == 2
MaxEvents == 2

Null == "null"

\* Accounts that register meetings, and the accounts vendor events name
\* ("g2" has no meeting).
Grants == {"g1"}
EventGrants == {"g1", "g2"}
NotetakerIds == {"b1", "b2"}
Statuses == {"pending", "joining", "recording", "processing", "completed", "failed"}
Terminal == {"completed", "failed"}

\* Documents the transcript sources can return.
UrlTranscript == "transcript_from_url"
ApiTranscript == "transcript_from_api"
RecordingUrl == "recording_url"

\* A transcript document of type raw, whose `transcript` field is the text
\* and no list of segments.
RawTranscript == "raw_transcript_from_api"

(***************************************************************************)
(* Notes.  generateNote is an async function, and the webhook handlers     *)
(* call it without await: the value they hold is the pending promise.      *)
(* setNote stores that promise; the spread {...note, summaryUrl,           *)
(* actionItemsUrl} of a promise has no own properties of the note, only    *)
(* the two urls.                                                           *)
(***************************************************************************)
\* A note is a record; NoNote is the null note of a new meeting.
NoNote == [kind |-> "null", of |-> Null]

generateNote(transcript) == [kind |-> "promise", of |-> transcript]

SpreadNote(note) == [kind |-> "urls_only", of |-> Null]

Progress(message, percentage) == [message |-> message, percentage |-> percentage]

\* MeetingService.createMeeting: the record of a new meeting.
NewMeeting(grantId) ==
    [grantId     |-> grantId,
     status      |-> "pending",
     notetakerId |-> Null,
     transcript  |-> Null,
     recording   |-> Null,
     note        |-> NoNote,
     progress    |-> Progress(<<"Meeting link added. Waiting to join...">>, 0)]

Ids(ms) == 1..Len(ms)

(***************************************************************************)
(* The store (MeetingService over the in-memory Map or DatabaseService).   *)
(***************************************************************************)

\* getAllMeetings: the ids in the order the store returns them: insertion
\* order for the Map, created_at descending for the table.
GetAllMeetings(ms) ==
    IF useDatabase
    THEN [k \in 1..Len(ms) |-> Len(ms) + 1 - k]
    ELSE [k \in 1..Len(ms) |-> k]

\* Array.prototype.find over a list of ids: the first id of the list that
\* is in `matching` (the ids the callback accepts), or 0.
Find(order, matching) ==
    LET hits == {k \in 1..Len(order) : order[k] \in matching}
    IN  IF hits = {} THEN 0
        ELSE order[CHOOSE k \in hits : \A j \in hits : k <= j]

\* Faulty variant: loose comparison, so an absent notetaker id matches the null
\* notetakerId of a meeting that has no bot yet.
FindByNotetakerIdLoose(ms, notetakerId) ==
    LET hits == {i \in Ids(ms) : ms[i].notetakerId = notetakerId}
    IN  IF hits = {} THEN 0
        ELSE IF useDatabase
        THEN (IF Cardinality(hits) = 1 THEN CHOOSE i \in hits : TRUE ELSE 0)
        ELSE CHOOSE i \in hits : \A j \in hits : i <= j

\* findByNotetakerId.  The Map is scanned in insertion order.  The table is
\* queried with .single(), which yields a row only when exactly one row
\* matches (no row or several rows are the PGRST116 error, mapped to null).
FindByNotetakerId(ms, notetakerId) ==
    LET hits == {i \in Ids(ms) : ms[i].notetakerId = notetakerId}
    IN  IF notetakerId = Null \/ hits = {} THEN 0
        ELSE IF useDatabase
        THEN (IF Cardinality(hits) = 1 THEN CHOOSE i \in hits : TRUE ELSE 0)
        ELSE CHOOSE i \in hits : \A j \in hits : i <= j

\* Faulty variant: the stored record is replaced by a new record that holds the
\* updates only.
UpdateMeetingReplacing(ms, id, updates) ==
    IF id \notin Ids(ms) THEN ms
    ELSE [ms EXCEPT ![id] =
            [f \in DOMAIN ms[id] |->
                IF f \in DOMAIN updates THEN updates[f]
                ELSE NewMeeting(ms[id].grantId)[f]]]

\* updateMeeting: {...meeting, ...updates}; `updates` is a record holding
\* the fields to replace.  An unknown id changes nothing.
UpdateMeeting(ms, id, updates) ==
    IF id \notin Ids(ms) THEN ms
    ELSE [ms EXCEPT ![id] =
            [f \in DOMAIN ms[id] |->
                IF f \in DOMAIN updates THEN updates[f] ELSE ms[id][f]]]

\* updateProgress: replaces the progress object.
UpdateProgress(ms, id, message, percentage) ==
    IF id \notin Ids(ms) THEN ms
    ELSE [ms EXCEPT ![id].progress = Progress(message, percentage)]

SetTranscript(ms, id, transcript) == UpdateMeeting(ms, id, [transcript |-> transcript])

\* Faulty variant: the note is stored without the status.
SetNoteOnly(ms, id, note) == UpdateMeeting(ms, id, [note |-> note])

SetNote(ms, id, note) == UpdateMeeting(ms, id, [note |-> note, status |-> "completed"])

SetNotetakerId(ms, id, notetakerId) == UpdateMeeting(ms, id, [notetakerId |-> notetakerId])

(***************************************************************************)
(* Vendor events, after the extraction at the top of processWebhookEvent   *)
(* (notetakerId, grantId, the sub-state and the media references).  A      *)
(* payload without `data` is the malformed delivery.                       *)
(***************************************************************************)
MeetingStates ==
    {"dispatched", "waiting_for_entry", "recording_active", "api_request",
     "no_meeting_activity", "no_participants", "bad_meeting_code",
     "entry_denied", "no_response", "kicked", "internal_error", "left_meeting"}

UpdatedStates ==
    {"scheduled", "connecting", "waiting_for_entry", "attending",
     "disconnected", "failed_entry", "paused"}

MediaStates == {"processing", "available", "error", "deleted", "archived"}

KnownTypes ==
    {"notetaker.created", "notetaker.meeting_state", "notetaker.media",
     "notetaker.updated", "notetaker.deleted", "notetaker.joined",
     "notetaker.recording", "notetaker.completed", "notetaker.failed"}

UnknownTypes == {"notetaker.paused"}

Event(type, notetakerId, grantId, state, transcript, recording) ==
    [type |-> type, notetakerId |-> notetakerId, grantId |-> grantId,
     state |-> state, transcript |-> transcript, recording |-> recording,
     hasData |-> TRUE]

MalformedEvent ==
    [type |-> "notetaker.meeting_state", notetakerId |-> Null, grantId |-> Null,
     state |-> Null, transcript |-> Null, recording |-> Null, hasData |-> FALSE]

StatesOf(type) ==
    CASE type = "notetaker.meeting_state" -> MeetingStates
      [] type = "notetaker.updated"       -> UpdatedStates
      [] type = "notetaker.media"         -> MediaStates
      [] OTHER                            -> {Null}

CreatedEvents ==
    {Event("notetaker.created", n, g, Null, Null, Null) :
        n \in NotetakerIds \cup {Null}, g \in EventGrants \cup {Null}}

\* notetaker.meeting_state and notetaker.updated events.
StateEvents ==
    UNION {{Event(t, n, "g1", s, Null, Null) :
                n \in NotetakerIds \cup {Null}, s \in StatesOf(t)} :
            t \in {"notetaker.meeting_state", "notetaker.updated"}}

MediaEvents ==
    {Event("notetaker.media", n, "g1", s, x[1], x[2]) :
        n \in NotetakerIds \cup {Null}, s \in MediaStates,
        x \in {<<Null, Null>>, <<"transcript_url", RecordingUrl>>}}

\* notetaker.deleted, the legacy events and the events of unknown type.
PlainEvents ==
    {Event(t, n, "g1", Null, Null, Null) :
        t \in (KnownTypes \cup UnknownTypes)
                \ {"notetaker.created", "notetaker.meeting_state",
                   "notetaker.updated", "notetaker.media"},
        n \in NotetakerIds \cup {Null}}

Events ==
    CreatedEvents \cup StateEvents \cup MediaEvents \cup PlainEvents \cup {MalformedEvent}

\* What the transcript sources do during one delivery: the download of the
\* media transcript url (axios.get) and nylasService.getTranscript.
Outcomes == {"ok", "empty", "throw"}

Envs == [url : Outcomes, api : Outcomes, doc : {ApiTranscript}]

EnvsFor(e) ==
    IF e.type = "notetaker.media" /\ e.state = "available" /\ e.transcript # Null
    THEN Envs
    ELSE IF e.type \in {"notetaker.media", "notetaker.completed"}
    THEN {v \in Envs : v.url = "ok"}
    ELSE {v \in Envs : v.url = "ok" /\ v.api = "ok"}

(***************************************************************************)
(* Handlers.  Each yields the store after the handler and whether an       *)
(* exception leaves it.                                                    *)
(***************************************************************************)
Done(ms) == [ms |-> ms, thrown |-> FALSE]

Throw(ms) == [ms |-> ms, thrown |-> TRUE]

\* try { ... } catch (error) { console.error(...) }
Catch(r) == [ms |-> r.ms, thrown |-> FALSE]

UpdateMeetingByNotetakerId(ms, notetakerId, updates) ==
    IF notetakerId = Null THEN ms
    ELSE LET id == FindByNotetakerId(ms, notetakerId) IN
         IF id # 0 THEN UpdateMeeting(ms, id, updates)
         ELSE IF "notetakerId" \in DOMAIN updates /\ "grantId" \in DOMAIN updates
         THEN LET byGrant == Find(GetAllMeetings(ms),
                                  {i \in Ids(ms) : ms[i].notetakerId = Null
                                                   /\ ms[i].grantId = updates["grantId"]})
              IN  IF byGrant # 0 THEN UpdateMeeting(ms, byGrant, updates) ELSE ms
         ELSE ms

\* Faulty variant: progress is kept monotonic, a lower percentage never replaces a
\* higher one.
UpdateProgressByNotetakerIdMonotonic(ms, notetakerId, message, percentage) ==
    IF notetakerId = Null THEN ms
    ELSE LET id == FindByNotetakerId(ms, notetakerId) IN
         IF id # 0
         THEN UpdateProgress(ms, id, message,
                  IF ms[id].progress.percentage > percentage
                  THEN ms[id].progress.percentage ELSE percentage)
         ELSE ms

UpdateProgressByNotetakerId(ms, notetakerId, message, percentage) ==
    IF notetakerId = Null THEN ms
    ELSE LET id == FindByNotetakerId(ms, notetakerId) IN
         IF id # 0 THEN UpdateProgress(ms, id, message, percentage) ELSE ms

\* The status update followed by the progress update that every table row
\* of the handlers performs.
SetStatusAndProgress(ms, notetakerId, status, message, percentage) ==
    UpdateProgressByNotetakerId(
        UpdateMeetingByNotetakerId(ms, notetakerId, [status |-> status]),
        notetakerId, message, percentage)

(***************************************************************************)
(* HTTP responses of the controller.  `response` is the last response the  *)
(* controller sent, `request` the last GET it served together with what    *)
(* the dispatch client did during it.  A body is a sequence holding the    *)
(* JSON object of the response, if any.                                    *)
(***************************************************************************)
Response(code, error, body) == [code |-> code, error |-> error, body |-> body]

NoResponse == Response(0, <<>>, <<>>)

NoRequest == [op |-> "none", id |-> 0, poll |-> Null, api |-> Null]

\* res.status(201).json({ success, meeting: { id, meetingUrl, status,
\* progress, createdAt } }) of addMeeting.  `meeting` is the object that
\* createMeeting returned: updateMeeting stores a copy ({...meeting,
\* ...updates}) and updateProgress writes to the stored copy, so the local
\* object still holds the fields of the new meeting.
AddMeetingResponse(meeting) ==
    Response(201, <<>>, <<[status |-> meeting.status, progress |-> meeting.progress]>>)

\* `generator` holds a call of the note generator: no call in the server
\* specifications.
NoCall == [transcript |-> Null, openai |-> FALSE, llm |-> Null, result |-> <<>>]

\* `store` holds the two places of MeetingService, the table and the Map,
\* with the revision timestamps: no record and no call in the server
\* specifications.
EmptyStore ==
    [rows |-> <<>>, clock |-> 0,
     call |-> [op |-> "none", id |-> 0, dbUp |-> TRUE, sample |-> 0, returned |-> FALSE]]

TypeOK ==
    /\ meetings \in Seq([grantId : Grants, status : Statuses,
                         notetakerId : NotetakerIds \cup {Null},
                         transcript : {Null, UrlTranscript, ApiTranscript, RawTranscript},
                         recording : {Null, RecordingUrl},
                         note : [kind : {"null", "promise", "urls_only"},
                                 of : {Null, UrlTranscript, ApiTranscript, RawTranscript}],
                         progress : [message : Seq(STRING), percentage : 0..100]])
    /\ Len(meetings) <= MaxMeetings
    /\ deploying \subseteq Ids(meetings)
    /\ issued \subseteq NotetakerIds
    /\ useDatabase \in BOOLEAN
    /\ nEvents \in 0..MaxEvents
    /\ response.code \in {0, 200, 201, 404}
    /\ request.op \in {"none", "polling", "getMeetingStatus", "getMeetingNote",
                       "getAllMeetings"}
    /\ Len(inflight) <= MaxEvents
    /\ \A k \in 1..Len(inflight) :
           /\ inflight[k].id \in 0..MaxMeetings
           /\ inflight[k].writes \in 0..5
           /\ inflight[k].acked \in BOOLEAN
           /\ inflight[k].raised \in BOOLEAN
    /\ Len(before) <= MaxMeetings
    /\ generator.openai \in BOOLEAN
    /\ Len(store.rows) <= MaxMeetings
    /\ store.call.op \in {"none", "createMeeting", "getMeeting", "updateMeeting"}

Init ==
    /\ meetings = <<>>
    /\ deploying = {}
    /\ issued = {}
    /\ useDatabase \in BOOLEAN
    /\ nEvents = 0
    /\ response = NoResponse
    /\ request = NoRequest
    /\ inflight = <<>>
    /\ before = <<>>
    /\ generator = NoCall
    /\ store = EmptyStore

\* Faulty variant: an unknown meeting state is only logged.
UnknownMeetingStateLogged(ms, notetakerId, meetingState) == ms

\* default case of handleMeetingStateChange.
UnknownMeetingState(ms, notetakerId, meetingState) ==
    UpdateProgressByNotetakerId(ms, notetakerId, <<"Meeting state: ", meetingState>>, 50)

\* default case of handleNotetakerStatusUpdate.
UnknownNotetakerState(ms, notetakerId, state) ==
    UpdateProgressByNotetakerId(ms, notetakerId, <<"Status: ", state>>, 50)

handleMeetingStateChange(ms, notetakerId, meetingState) ==
    IF notetakerId = Null THEN Done(ms)
    ELSE Catch(Done(
      CASE meetingState = "dispatched" ->
             SetStatusAndProgress(ms, notetakerId, "joining",
                 <<"Notetaker dispatched. Preparing to join...">>, 25)
        [] meetingState = "waiting_for_entry" ->
             SetStatusAndProgress(ms, notetakerId, "joining",
                 <<"Waiting to be admitted to meeting...">>, 30)
        [] meetingState = "recording_active" ->
             SetStatusAndProgress(ms, notetakerId, "recording",
                 <<"In meeting. Recording...">>, 60)
        [] meetingState = "api_request" ->
             SetStatusAndProgress(ms, notetakerId, "processing",
                 <<"Recording stopped. Processing...">>, 80)
        [] meetingState \in {"no_meeting_activity", "no_participants"} ->
             SetStatusAndProgress(ms, notetakerId, "processing",
                 <<"Meeting ended. Processing recording...">>, 80)
        [] meetingState \in {"bad_meeting_code", "entry_denied", "no_response"} ->
             SetStatusAndProgress(ms, notetakerId, "failed",
                 <<"Failed to join: ", meetingState>>, 0)
        [] meetingState = "kicked" ->
             SetStatusAndProgress(ms, notetakerId, "failed",
                 <<"Removed from meeting by participant">>, 0)
        [] meetingState = "internal_error" ->
             SetStatusAndProgress(ms, notetakerId, "failed",
                 <<"Internal error occurred">>, 0)
        [] OTHER -> UnknownMeetingState(ms, notetakerId, meetingState)))

handleNotetakerStatusUpdate(ms, notetakerId, state) ==
    IF notetakerId = Null THEN Done(ms)
    ELSE Catch(Done(
      CASE state = "scheduled" ->
             SetStatusAndProgress(ms, notetakerId, "joining",
                 <<"Notetaker scheduled. Waiting...">>, 15)
        [] state = "connecting" ->
             SetStatusAndProgress(ms, notetakerId, "joining",
                 <<"Connecting to meeting...">>, 30)
        [] state = "waiting_for_entry" ->
             SetStatusAndProgress(ms, notetakerId, "joining",
                 <<"Waiting to be admitted...">>, 35)
        [] state = "attending" ->
             SetStatusAndProgress(ms, notetakerId, "recording",
                 <<"Attending meeting. Recording...">>, 60)
        [] state = "disconnected" ->
             SetStatusAndProgress(ms, notetakerId, "processing",
                 <<"Disconnected. Processing recording...">>, 80)
        [] state = "failed_entry" ->
             SetStatusAndProgress(ms, notetakerId, "failed",
                 <<"Failed to enter meeting">>, 0)
        [] OTHER -> UnknownNotetakerState(ms, notetakerId, state)))

\* Faulty variant: a failed transcript fetch also forces the status to failed.
handleMeetingCompletedFailing(ms, notetakerId, env) ==
    LET id == FindByNotetakerId(ms, notetakerId) IN
    IF id = 0 THEN Done(ms)
    ELSE LET ms1 == UpdateProgress(ms, id, <<"Meeting completed. Generating note...">>, 90)
         IN  CASE env.api = "throw" ->
                    Catch(Done(UpdateMeeting(
                        UpdateProgress(ms1, id, <<"Error generating note">>, 0),
                        id, [status |-> "failed"])))
               [] env.api = "empty" -> Done(ms1)
               [] OTHER ->
                    LET ms2 == SetTranscript(ms1, id, env.doc)
                        ms3 == SetNote(ms2, id, generateNote(env.doc))
                    IN  Done(UpdateProgress(ms3, id, <<"Note generated successfully!">>, 100))

\* handleMeetingCompleted: the completion sequence through the dispatch
\* client (nylasService.getTranscript).
handleMeetingCompleted(ms, notetakerId, env) ==
    LET id == FindByNotetakerId(ms, notetakerId) IN
    IF id = 0 THEN Done(ms)
    ELSE LET ms1 == UpdateProgress(ms, id, <<"Meeting completed. Generating note...">>, 90)
         IN  CASE env.api = "throw" ->
                    Catch(Done(UpdateProgress(ms1, id, <<"Error generating note">>, 0)))
               [] env.api = "empty" -> Done(ms1)
               [] OTHER ->
                    LET ms2 == SetTranscript(ms1, id, env.doc)
                        ms3 == SetNote(ms2, id, generateNote(env.doc))
                    IN  Done(UpdateProgress(ms3, id, <<"Note generated successfully!">>, 100))

\* Line 334 of webhookRoutes.js, `const meetings = meetingService.getAllMeetings()`:
\* getAllMeetings is async and the call is not awaited, so the value is the
\* pending promise, which has no `find`.
UnawaitedGetAllMeetings(ms) == [isArray |-> FALSE, order |-> GetAllMeetings(ms)]

\* Lines 335-412 of handleMediaAvailable, for a list of meetings.
MediaSwitch(ms, order, e, env) ==
    LET id == Find(order, {i \in Ids(ms) : e.notetakerId # Null
                                              /\ ms[i].notetakerId = e.notetakerId})
    IN
    IF id = 0 THEN Done(ms)
    ELSE
      CASE e.state = "processing" ->
             Done(UpdateProgress(ms, id, <<"Processing recording and transcription...">>, 85))
        [] e.state = "available" ->
             LET ms1 == UpdateProgress(ms, id,
                            <<"Media files available. Generating note...">>, 90)
             IN  IF e.transcript = Null THEN handleMeetingCompleted(ms1, e.notetakerId, env)
                 ELSE CASE env.url = "throw" -> handleMeetingCompleted(ms1, e.notetakerId, env)
                        [] env.url = "empty" -> Done(ms1)
                        [] OTHER ->
                             LET note == generateNote(UrlTranscript)
                                 ms2 == SetTranscript(ms1, id, UrlTranscript)
                                 ms3 == SetNote(ms2, id, note)
                                 ms4 == UpdateMeeting(ms3, id,
                                            [recording |-> e.recording,
                                             note |-> SpreadNote(note),
                                             status |-> "completed"])
                             IN  Done(UpdateProgress(ms4, id,
                                        <<"Note generated successfully!">>, 100))
        [] e.state = "error" ->
             Done(UpdateMeeting(
                    UpdateProgress(ms, id, <<"Error processing recording">>, 0),
                    id, [status |-> "failed"]))
        [] OTHER -> Done(ms)

\* handleMediaAvailable: `meetings.find` on a value that is no array is a
\* TypeError inside the try block; the catch block runs the API fallback.
handleMediaAvailable(ms, e, env) ==
    LET found == UnawaitedGetAllMeetings(ms) IN
    IF found.isArray
    THEN MediaSwitch(ms, found.order, e, env)
    ELSE handleMeetingCompleted(Catch(Throw(ms)).ms, e.notetakerId, env)

\* Faulty variant: the account match does not ask for a meeting without notetakerId.
NotetakerCreatedAnyMeeting(ms, notetakerId, grantId) ==
    IF notetakerId = Null THEN ms
    ELSE LET order   == GetAllMeetings(ms)
             byGrant == Find(order, {i \in Ids(ms) : grantId # Null /\ ms[i].grantId = grantId})
             byId    == Find(order, {i \in Ids(ms) : ms[i].notetakerId = notetakerId})
             meeting == IF byGrant # 0 THEN byGrant ELSE byId
         IN  IF meeting # 0
             THEN UpdateProgress(
                      UpdateMeeting(ms, meeting,
                          [status |-> "joining", notetakerId |-> notetakerId]),
                      meeting, <<"Notetaker created. Waiting to join meeting...">>, 20)
             ELSE ms

\* Faulty variant: when neither match finds a meeting, any meeting of the account
\* is taken.
NotetakerCreatedRelinking(ms, notetakerId, grantId) ==
    IF notetakerId = Null THEN ms
    ELSE LET order   == GetAllMeetings(ms)
             byGrant == Find(order, {i \in Ids(ms) : ms[i].notetakerId = Null
                                                     /\ grantId # Null
                                                     /\ ms[i].grantId = grantId})
             byId    == Find(order, {i \in Ids(ms) : ms[i].notetakerId = notetakerId})
             any     == Find(order, {i \in Ids(ms) : ms[i].grantId = grantId})
             meeting == IF byGrant # 0 THEN byGrant ELSE IF byId # 0 THEN byId ELSE any
         IN  IF meeting # 0
             THEN UpdateProgress(
                      UpdateMeeting(ms, meeting,
                          [status |-> "joining", notetakerId |-> notetakerId]),
                      meeting, <<"Notetaker created. Waiting to join meeting...">>, 20)
             ELSE ms

\* case 'notetaker.created' of processWebhookEvent.
NotetakerCreated(ms, notetakerId, grantId) ==
    IF notetakerId = Null THEN ms
    ELSE LET order   == GetAllMeetings(ms)
             byGrant == Find(order, {i \in Ids(ms) : ms[i].notetakerId = Null
                                                     /\ grantId # Null
                                                     /\ ms[i].grantId = grantId})
             byId    == Find(order, {i \in Ids(ms) : ms[i].notetakerId = notetakerId})
             meeting == IF byGrant # 0 THEN byGrant ELSE byId
         IN  IF meeting # 0
             THEN UpdateProgress(
                      UpdateMeeting(ms, meeting,
                          [status |-> "joining", notetakerId |-> notetakerId]),
                      meeting, <<"Notetaker created. Waiting to join meeting...">>, 20)
             ELSE UpdateProgressByNotetakerId(
                      UpdateMeetingByNotetakerId(ms, notetakerId,
                          [status |-> "joining", notetakerId |-> notetakerId]),
                      notetakerId, <<"Notetaker created. Waiting to join meeting...">>, 20)

\* processWebhookEvent: the whole asynchronous processing of one delivery.
\* Reading `data.object` of a payload without data throws inside the try.
processWebhookEvent(ms, e, env) ==
    IF ~e.hasData THEN Catch(Throw(ms))
    ELSE Catch(
      CASE e.type = "notetaker.created" ->
             Done(NotetakerCreated(ms, e.notetakerId, e.grantId))
        [] e.type = "notetaker.meeting_state" ->
             handleMeetingStateChange(ms, e.notetakerId, e.state)
        [] e.type = "notetaker.media" ->
             handleMediaAvailable(ms, e, env)
        [] e.type = "notetaker.updated" ->
             handleNotetakerStatusUpdate(ms, e.notetakerId, e.state)
        [] e.type = "notetaker.deleted" ->
             Done(SetStatusAndProgress(ms, e.notetakerId, "failed",
                      <<"Notetaker was cancelled">>, 0))
        [] e.type = "notetaker.joined" ->
             Done(SetStatusAndProgress(ms, e.notetakerId, "recording",
                      <<"Bot joined meeting. Recording...">>, 50))
        [] e.type = "notetaker.recording" ->
             Done(SetStatusAndProgress(ms, e.notetakerId, "recording",
                      <<"Recording in progress...">>, 70))
        [] e.type = "notetaker.completed" ->
             handleMeetingCompleted(ms, e.notetakerId, env)
        [] e.type = "notetaker.failed" ->
             Done(SetStatusAndProgress(ms, e.notetakerId, "failed",
                      <<"Failed to record meeting">>, 0))
        [] OTHER -> Done(ms))

(***************************************************************************)
(* Actions.                                                                *)
(***************************************************************************)

\* addMeeting up to the call of nylasService.deployNotetaker: the pending
\* record is stored and the deployment is in flight.
AddMeeting ==
    /\ Len(meetings) < MaxMeetings
    /\ \E g \in Grants : meetings' = Append(meetings, NewMeeting(g))
    /\ deploying' = deploying \cup {Len(meetings) + 1}
    /\ UNCHANGED <<issued, useDatabase, nEvents, response, request, inflight, before, generator, store>>

\* Faulty variant: the deployed bot is not linked to the meeting.
DeploySucceededUnlinked ==
    \E id \in deploying, n \in NotetakerIds \ issued :
        /\ meetings' =
             UpdateProgress(
                 UpdateMeeting(meetings, id, [status |-> "joining"]),
                 id, <<"Bot deployed. Joining meeting...">>, 20)
        /\ deploying' = deploying \ {id}
        /\ issued' = issued \cup {n}
        /\ response' = AddMeetingResponse(NewMeeting(meetings[id].grantId))
        /\ UNCHANGED <<useDatabase, nEvents, request, inflight, before, generator, store>>

\* addMeeting after deployNotetaker has answered with a notetaker id.
DeploySucceeded ==
    \E id \in deploying, n \in NotetakerIds \ issued :
        /\ meetings' =
             UpdateProgress(
                 UpdateMeeting(SetNotetakerId(meetings, id, n), id,
                     [status |-> "joining", notetakerId |-> n]),
                 id, <<"Bot deployed. Joining meeting...">>, 20)
        /\ deploying' = deploying \ {id}
        /\ issued' = issued \cup {n}
        /\ response' = AddMeetingResponse(NewMeeting(meetings[id].grantId))
        /\ UNCHANGED <<useDatabase, nEvents, request, inflight, before, generator, store>>

\* Faulty variant: a failed deployment rejects the request and leaves the
\* meeting pending.
DeployFailedRejecting ==
    \E id \in deploying :
        /\ deploying' = deploying \ {id}
        /\ response' = Response(500, <<"Internal server error">>, <<>>)
        /\ UNCHANGED <<meetings, issued, useDatabase, nEvents, request, inflight, before, generator, store>>

\* addMeeting after deployNotetaker has thrown.
DeployFailed ==
    \E id \in deploying :
        /\ meetings' =
             UpdateProgress(
                 UpdateMeeting(meetings, id, [status |-> "failed"]),
                 id, <<"Error: ", "Failed to deploy notetaker">>, 0)
        /\ deploying' = deploying \ {id}
        /\ response' = AddMeetingResponse(NewMeeting(meetings[id].grantId))
        /\ UNCHANGED <<issued, useDatabase, nEvents, request, inflight, before, generator, store>>

\* The receiver takes another delivery.
CanDeliver == nEvents < MaxEvents

\* POST /api/webhooks/nylas: one delivery, acknowledged and processed.
Webhook ==
    /\ CanDeliver
    /\ \E e \in Events : \E env \in EnvsFor(e) :
           meetings' = processWebhookEvent(meetings, e, env).ms
    /\ nEvents' = nEvents + 1
    /\ UNCHANGED <<deploying, issued, useDatabase, response, request, inflight, before, generator, store>>

Next == AddMeeting \/ DeploySucceeded \/ DeployFailed \/ Webhook

Spec == Init /\ [][Next]_vars

(***************************************************************************)
(* The read side of the controller: getMeetingStatus with its resync       *)
(* against the dispatch client, and getMeetingNote.                        *)
(***************************************************************************)

\* What nylasService.getNotetakerStatus does during one request: it throws
\* (timeout, gateway error, any other error) or returns the notetaker with
\* a status, known or not, or without one.
PollFailures == {"timeout", "gateway", "error"}
PollStatuses == {"joined", "recording", "completed", "scheduled"}
Polls == PollFailures \cup PollStatuses \cup {"no_status"}

\* The ids a request can name; an id beyond the stored meetings is unknown.
RequestIds == 1..MaxMeetings

\* JSON.stringify of a note in a response body: a promise has no enumerable
\* own properties and becomes the empty object.
Json(note) ==
    IF note.kind = "promise" THEN [kind |-> "empty_object", of |-> Null] ELSE note

\* The try block of getMeetingStatus after the dispatch client answered:
\* status and progress from the notetaker status (kept as they are for an
\* unknown one), then transcript and note if the notetaker has completed
\* and the meeting has no note.  `meeting` is the record read at the start
\* of the request.
ResyncFrom(ms, meeting, id, poll, api) ==
    IF poll \notin PollStatuses THEN ms
    ELSE LET row == CASE poll = "joined" ->
                           <<"recording", <<"Bot joined meeting. Recording in progress...">>, 50>>
                      [] poll = "recording" ->
                           <<"recording", <<"Recording meeting...">>, 70>>
                      [] poll = "completed" ->
                           <<"processing", <<"Meeting ended. Processing transcript...">>, 90>>
                      [] OTHER ->
                           <<meeting.status, meeting.progress.message,
                             meeting.progress.percentage>>
             ms1 == UpdateProgress(UpdateMeeting(ms, id, [status |-> row[1]]),
                                   id, row[2], row[3])
         IN  IF poll = "completed" /\ meeting.note = NoNote /\ api = "ok"
             THEN SetNote(SetTranscript(ms1, id, ApiTranscript), id,
                          generateNote(ApiTranscript))
             ELSE ms1

\* The resync when nothing else runs during the poll: `meeting` is the
\* stored record.
Resync(ms, id, poll, api) == ResyncFrom(ms, ms[id], id, poll, api)

\* Faulty variant: a failed status poll fails the request.
getMeetingStatusStrict(ms, id, poll, api) ==
    IF id \notin Ids(ms)
    THEN [ms |-> ms, res |-> Response(404, <<"Meeting not found">>, <<>>)]
    ELSE IF poll \in PollFailures
    THEN [ms |-> ms, res |-> Response(500, <<"Internal server error">>, <<>>)]
    ELSE LET polled == ms[id].notetakerId # Null /\ ms[id].status \notin Terminal
             synced == IF polled THEN Resync(ms, id, poll, api) ELSE ms
         IN  [ms |-> synced, res |-> Response(200, <<>>, <<synced[id]>>)]

\* getMeetingStatus: the store after the request and the response.
getMeetingStatus(ms, id, poll, api) ==
    IF id \notin Ids(ms)
    THEN [ms |-> ms, res |-> Response(404, <<"Meeting not found">>, <<>>)]
    ELSE LET polled == ms[id].notetakerId # Null /\ ms[id].status \notin Terminal
             synced == IF polled THEN Resync(ms, id, poll, api) ELSE ms
         IN  [ms |-> synced, res |-> Response(200, <<>>, <<synced[id]>>)]

\* Faulty variant: a meeting without note is reported like an unknown one.
getMeetingNoteMerged(ms, id) ==
    IF id \notin Ids(ms) \/ ms[id].note = NoNote
    THEN Response(404, <<"Meeting not found">>, <<>>)
    ELSE Response(200, <<>>,
                  <<[note |-> Json(ms[id].note), transcript |-> ms[id].transcript]>>)

\* getMeetingNote: the response (the store is only read).
getMeetingNote(ms, id) ==
    IF id \notin Ids(ms)
    THEN Response(404, <<"Meeting not found">>, <<>>)
    ELSE IF ms[id].note = NoNote
    THEN Response(404, <<"Note not available yet. Meeting may still be in progress.">>,
                  <<[status |-> ms[id].status]>>)
    ELSE Response(200, <<>>,
                  <<[note |-> Json(ms[id].note), transcript |-> ms[id].transcript]>>)

\* GET /api/meetings/:meetingId
GetMeetingStatus ==
    \E id \in RequestIds, poll \in Polls, api \in Outcomes :
        /\ poll # "completed" => api = "ok"
        /\ LET r == getMeetingStatus(meetings, id, poll, api) IN
           /\ meetings' = r.ms
           /\ response' = r.res
        /\ request' = [op |-> "getMeetingStatus", id |-> id, poll |-> poll, api |-> api]
        /\ UNCHANGED <<deploying, issued, useDatabase, nEvents, inflight, before, generator, store>>

\* GET /api/meetings/:meetingId/note
GetMeetingNote ==
    \E id \in RequestIds :
        /\ response' = getMeetingNote(meetings, id)
        /\ request' = [op |-> "getMeetingNote", id |-> id, poll |-> Null, api |-> Null]
        /\ UNCHANGED <<meetings, deploying, issued, useDatabase, nEvents, inflight, before, generator, store>>

\* getAllMeetings of the controller: the response lists the meetings in the
\* order the store returns them.
getAllMeetingsResponse(ms) ==
    LET order == GetAllMeetings(ms) IN
    Response(200, <<>>,
        <<[meetings |-> [k \in 1..Len(order) |->
                            [id |-> order[k], status |-> ms[order[k]].status,
                             progress |-> ms[order[k]].progress]]]>>)

\* GET /api/meetings
ListMeetings ==
    /\ response' = getAllMeetingsResponse(meetings)
    /\ request' = [op |-> "getAllMeetings", id |-> 0, poll |-> Null, api |-> Null]
    /\ UNCHANGED <<meetings, deploying, issued, useDatabase, nEvents, inflight, before, generator, store>>

\* getMeetingStatus up to the call of nylasService.getNotetakerStatus: the
\* meeting is read and, having a notetaker and no terminal status, polled.
\* `before` keeps the store as the request read it.
BeginResync ==
    \E id \in Ids(meetings) :
        /\ request.op # "polling"
        /\ meetings[id].notetakerId # Null
        /\ meetings[id].status \notin Terminal
        /\ request' = [op |-> "polling", id |-> id, poll |-> Null, api |-> Null]
        /\ before' = meetings
        /\ UNCHANGED <<meetings, deploying, issued, useDatabase, nEvents, response,
                       inflight, generator, store>>

\* getMeetingStatus after the dispatch client has answered the poll.
EndResync ==
    \E poll \in Polls, api \in Outcomes :
        /\ request.op = "polling"
        /\ poll # "completed" => api = "ok"
        /\ meetings' =
             IF poll \in PollFailures THEN meetings
             ELSE ResyncFrom(meetings, before[request.id], request.id, poll, api)
        /\ response' = Response(200, <<>>, <<meetings'[request.id]>>)
        /\ request' = [op |-> "getMeetingStatus", id |-> request.id, poll |-> poll,
                       api |-> api]
        /\ before' = <<>>
        /\ UNCHANGED <<deploying, issued, useDatabase, nEvents, inflight, generator, store>>

\* The deliveries taken while a resync waits for its poll: events for the
\* notetaker of the meeting polled.
RacingEvents ==
    {e \in StateEvents \cup MediaEvents :
        /\ e.notetakerId = before[request.id].notetakerId
        /\ \/ e.type = "notetaker.meeting_state"
              /\ e.state \in {"recording_active", "entry_denied"}
           \/ e.type = "notetaker.media" /\ e.state = "available" /\ e.transcript = Null}

\* POST /api/webhooks/nylas during the poll of a resync.
WebhookDuringPoll ==
    /\ request.op = "polling"
    /\ CanDeliver
    /\ \E e \in RacingEvents : \E env \in EnvsFor(e) :
           meetings' = processWebhookEvent(meetings, e, env).ms
    /\ nEvents' = nEvents + 1
    /\ UNCHANGED <<deploying, issued, useDatabase, response, request, inflight,
                   before, generator, store>>

\* The resync with deliveries of the receiver during its poll.
ResyncNext ==
    \/ AddMeeting \/ DeploySucceeded \/ DeployFailed
    \/ BeginResync \/ WebhookDuringPoll \/ EndResync

ResyncSpec == Init /\ [][ResyncNext]_vars

\* The controller alone: meetings are registered, deployed and read, and no
\* vendor event is delivered.
ControllerNext ==
    \/ AddMeeting \/ DeploySucceeded \/ DeployFailed
    \/ GetMeetingStatus \/ GetMeetingNote \/ ListMeetings

ControllerSpec == Init /\ [][ControllerNext]_vars

(***************************************************************************)
(* Properties.  Delivered(e, env) is the outcome of processing the         *)
(* delivery of e in the current state, After(e, env) the store it leaves;  *)
(* the properties range over every delivery the receiver can take in a     *)
(* reachable state.                                                        *)
(***************************************************************************)
Delivered(e, env) == processWebhookEvent(meetings, e, env)

After(e, env) == Delivered(e, env).ms

Percentage(m) == m.progress.percentage

Mentions(message, raw) == \E k \in 1..Len(message) : message[k] = raw

\* C1: terminal stickiness - once a session is completed or failed, no
\* delivery of a lifecycle event of any type changes its status.
C1_TerminalSticky ==
    [][\A i \in Ids(meetings) :
          (nEvents' = nEvents + 1 /\ meetings[i].status \in Terminal)
              => meetings'[i].status = meetings[i].status]_vars

\* C2: idempotence - processing the identical event twice in a row leaves
\* the same session records as processing it once.
C2_Idempotent ==
    CanDeliver =>
    \A e \in Events : \A env \in EnvsFor(e) :
        LET once == After(e, env) IN
        processWebhookEvent(once, e, env).ms = once

\* C3: a botId that is already set is never overwritten with a different
\* non-null value by a notetaker.created event.
C3_BotIdNotOverwritten ==
    CanDeliver =>
    \A e \in CreatedEvents : \A env \in EnvsFor(e) :
        LET post == After(e, env) IN
        \A i \in Ids(meetings) :
            meetings[i].notetakerId # Null
                => post[i].notetakerId = meetings[i].notetakerId

\* C3 witness: the in-memory store links by account to the oldest
\* unassigned meeting, so a created event for b2 that linked meeting 2 was
\* processed while meeting 1 already held b1, and meeting 1 still holds b1.
C3_Witness ==
    /\ ~useDatabase /\ Len(meetings) = 2 /\ nEvents = 1
    /\ meetings[1].notetakerId = "b1"
    /\ meetings[2].notetakerId = "b2"
    /\ meetings[2].progress.message = <<"Notetaker created. Waiting to join meeting...">>

\* C4: resolution precedence - an event whose bot id equals the botId of an
\* existing session changes that session and no other, even if another
\* session of the account has no botId yet.
C4_BotIdFirst ==
    CanDeliver =>
    \A e \in Events : \A env \in EnvsFor(e) :
        (e.notetakerId # Null
         /\ \E i \in Ids(meetings) : meetings[i].notetakerId = e.notetakerId)
            => LET post == After(e, env) IN
               \A j \in Ids(meetings) :
                   post[j] # meetings[j] => meetings[j].notetakerId = e.notetakerId

\* The sessions of an account that have no botId yet.
Unassigned(grantId) ==
    {i \in Ids(meetings) : meetings[i].notetakerId = Null /\ meetings[i].grantId = grantId}

Newest(S) == CHOOSE i \in S : \A j \in S : j <= i

\* C5: resolution by account - a created event resolved by account id links
\* the most recently created session of that account whose botId is unset,
\* and no other such session, with either store.
C5_MostRecentWins ==
    CanDeliver =>
    \A e \in CreatedEvents : \A env \in EnvsFor(e) :
        (e.notetakerId # Null /\ Unassigned(e.grantId) # {})
            => LET post   == After(e, env)
                   newest == Newest(Unassigned(e.grantId))
               IN  /\ post[newest].notetakerId = e.notetakerId
                   /\ \A j \in Unassigned(e.grantId) \ {newest} : post[j] = meetings[j]

\* An event resolves to no session: its bot id is the botId of no session,
\* and it is no created event with a bot id for an account that has an
\* unassigned session.
Unresolved(e) ==
    /\ \A i \in Ids(meetings) :
           e.notetakerId = Null \/ meetings[i].notetakerId # e.notetakerId
    /\ ~(e.type = "notetaker.created" /\ e.hasData /\ e.notetakerId # Null
         /\ Unassigned(e.grantId) # {})

\* C6: log-and-drop - an event that resolves to no session leaves every
\* session record unchanged and raises no error.
C6_LogAndDrop ==
    CanDeliver =>
    \A e \in Events : \A env \in EnvsFor(e) :
        Unresolved(e)
            => LET r == Delivered(e, env) IN r.ms = meetings /\ ~r.thrown

\* C6 witness: a delivery has been processed against a store holding one
\* pending meeting without botId, and that record is as it was created.
C6_Witness ==
    /\ nEvents = 1 /\ Len(meetings) = 1
    /\ meetings[1] = NewMeeting("g1")

\* The transition table of the claim: status and percentage per state event.
TableRow(e) ==
    CASE e.type = "notetaker.meeting_state" /\ e.state = "dispatched" ->
           <<"joining", 25>>
      [] e.type = "notetaker.meeting_state" /\ e.state = "waiting_for_entry" ->
           <<"joining", 30>>
      [] e.type = "notetaker.updated" /\ e.state = "waiting_for_entry" ->
           <<"joining", 35>>
      [] e.type = "notetaker.meeting_state" /\ e.state = "recording_active" ->
           <<"recording", 60>>
      [] e.type = "notetaker.updated" /\ e.state = "attending" ->
           <<"recording", 60>>
      [] e.type = "notetaker.meeting_state"
         /\ e.state \in {"no_meeting_activity", "no_participants", "api_request"} ->
           <<"processing", 80>>
      [] e.type = "notetaker.updated" /\ e.state = "disconnected" ->
           <<"processing", 80>>
      [] e.type = "notetaker.meeting_state"
         /\ e.state \in {"bad_meeting_code", "entry_denied", "no_response",
                         "kicked", "internal_error"} ->
           <<"failed", 0>>
      [] e.type = "notetaker.deleted" ->
           <<"failed", 0>>
      [] OTHER -> <<>>

\* C7: transition table - for a non-terminal session resolved by bot id,
\* each state event sets status and percentage to exactly the table values,
\* whatever the percentage was before.
C7_TransitionTable ==
    CanDeliver =>
    \A e \in StateEvents \cup PlainEvents : \A env \in EnvsFor(e) :
        LET id == FindByNotetakerId(meetings, e.notetakerId) IN
        (TableRow(e) # <<>> /\ id # 0 /\ meetings[id].status \notin Terminal)
            => LET post == After(e, env) IN
               /\ post[id].status = TableRow(e)[1]
               /\ Percentage(post[id]) = TableRow(e)[2]

\* C7 witness: a session resolved by bot id has taken a failure row of the
\* table, its percentage going down from the 20 of the deployment to 0.
C7_Witness ==
    \E i \in Ids(meetings) :
        /\ i \notin deploying /\ meetings[i].notetakerId \in issued
        /\ meetings[i].status = "failed"
        /\ meetings[i].progress = Progress(<<"Failed to join: ", "entry_denied">>, 0)

\* A media-available event that carries a transcript reference.
MediaAvailableWithTranscript(e) ==
    e.type = "notetaker.media" /\ e.state = "available" /\ e.transcript # Null

\* C8: media-available completion - when the event carries a transcript
\* reference and its download succeeds, the resolved session ends with the
\* downloaded transcript, a summary, the event's recording reference, status
\* completed and percentage 100.
C8_MediaAvailableCompletes ==
    CanDeliver =>
    \A e \in MediaEvents : \A env \in EnvsFor(e) :
        LET id == FindByNotetakerId(meetings, e.notetakerId) IN
        (MediaAvailableWithTranscript(e) /\ env.url = "ok" /\ id # 0)
            => LET post == After(e, env) IN
               /\ post[id].transcript = UrlTranscript
               /\ post[id].note # NoNote
               /\ post[id].recording = e.recording
               /\ post[id].status = "completed"
               /\ Percentage(post[id]) = 100

\* C9: completion failure - when a media-available event has no transcript
\* reference (or its download fails) and the dispatch-client fallback fails
\* too, the status stays as it was, the summary stays as it was (unset), and
\* the progress message records the generation error.
C9_CompletionFailure ==
    CanDeliver =>
    \A e \in MediaEvents : \A env \in EnvsFor(e) :
        LET id == FindByNotetakerId(meetings, e.notetakerId) IN
        (e.state = "available"
         /\ (e.transcript = Null \/ env.url = "throw")
         /\ env.api = "throw" /\ id # 0)
            => LET post == After(e, env) IN
               /\ post[id].status = meetings[id].status
               /\ post[id].note = meetings[id].note
               /\ post[id].progress.message = <<"Error generating note">>

\* C9 witness: a session that was processing carries the generation-error
\* message at 0, is still processing and has no summary.
C9_Witness ==
    \E i \in Ids(meetings) :
        /\ meetings[i].progress = Progress(<<"Error generating note">>, 0)
        /\ meetings[i].status = "processing"
        /\ meetings[i].note = NoNote

\* C10 as stated: an event of unknown type leaves the resolved session's
\* status unchanged and sets its progress to a message that includes the raw
\* type string, with percentage 50.
C10_UnknownTypeProgress ==
    CanDeliver =>
    \A e \in PlainEvents : \A env \in EnvsFor(e) :
        LET id == FindByNotetakerId(meetings, e.notetakerId) IN
        (e.type \in UnknownTypes /\ id # 0)
            => LET post == After(e, env) IN
               /\ post[id].status = meetings[id].status
               /\ Mentions(post[id].progress.message, e.type)
               /\ Percentage(post[id]) = 50

UnknownSubState(e) ==
    \/ e.type = "notetaker.meeting_state" /\ e.state \notin MeetingStates \ {"left_meeting"}
    \/ e.type = "notetaker.updated" /\ e.state \notin UpdatedStates \ {"paused"}

\* C10 amended: an event of unknown type changes no session at all and
\* raises nothing; a meeting-state or status-update event with an unknown
\* sub-state leaves the resolved session's status unchanged and sets its
\* progress to a message that includes the raw sub-state, with percentage 50.
C10_UnknownAmended ==
    CanDeliver =>
    /\ \A e \in PlainEvents : \A env \in EnvsFor(e) :
           e.type \in UnknownTypes
               => LET r == Delivered(e, env) IN r.ms = meetings /\ ~r.thrown
    /\ \A e \in StateEvents : \A env \in EnvsFor(e) :
           LET id == FindByNotetakerId(meetings, e.notetakerId) IN
           (UnknownSubState(e) /\ id # 0)
               => LET r == Delivered(e, env) IN
                  /\ r.ms[id].status = meetings[id].status
                  /\ Mentions(r.ms[id].progress.message, e.state)
                  /\ Percentage(r.ms[id]) = 50
                  /\ ~r.thrown

\* C10 witness: a session shows the raw unknown meeting state at 50.
C10_Witness ==
    \E i \in Ids(meetings) :
        /\ meetings[i].progress = Progress(<<"Meeting state: ", "left_meeting">>, 50)
        /\ meetings[i].status = "joining"

\* The non-terminal session a media event resolves to by its bot id, or 0.
ResolvedNonTerminal(e) ==
    LET id == FindByNotetakerId(meetings, e.notetakerId) IN
    IF id # 0 /\ meetings[id].status \notin Terminal THEN id ELSE 0

\* C11: media processing - a media event with state processing for a
\* resolved non-terminal session results in status processing and percentage
\* 85, and fetches no transcript and generates no summary.
C11_MediaProcessing ==
    CanDeliver =>
    \A e \in MediaEvents : \A env \in EnvsFor(e) :
        LET id == ResolvedNonTerminal(e) IN
        (e.state = "processing" /\ id # 0)
            => LET post == After(e, env) IN
               /\ post[id].status = "processing"
               /\ Percentage(post[id]) = 85
               /\ post[id].transcript = meetings[id].transcript
               /\ post[id].note = meetings[id].note

\* C12: media error - a media event with state error for a resolved
\* non-terminal session results in status failed and percentage 0, never in
\* status completed.
C12_MediaError ==
    CanDeliver =>
    \A e \in MediaEvents : \A env \in EnvsFor(e) :
        LET id == ResolvedNonTerminal(e) IN
        (e.state = "error" /\ id # 0)
            => LET post == After(e, env) IN
               /\ post[id].status = "failed"
               /\ Percentage(post[id]) = 0

\* C13: media deleted - a media event with state deleted leaves status,
\* progress, transcript, summary and recording of every session unchanged.
C13_MediaDeleted ==
    CanDeliver =>
    \A e \in MediaEvents : \A env \in EnvsFor(e) :
        e.state = "deleted" => After(e, env) = meetings

\* The statuses past joining.
PastJoining == {"recording", "processing", "completed", "failed"}

\* C14: bot-created guard - a session whose status is recording, processing,
\* completed or failed is never moved back to joining by a bot-created event.
C14_CreatedGuard ==
    CanDeliver =>
    \A e \in CreatedEvents : \A env \in EnvsFor(e) :
        LET post == After(e, env) IN
        \A i \in Ids(meetings) :
            meetings[i].status \in PastJoining => post[i].status # "joining"

\* C15: legacy events - for a resolved non-terminal session, legacy completed
\* sets status processing with percentage 90 and runs the completion sequence
\* (completed/100 when the transcript is obtained, left at processing/90 when
\* the dispatch client has no transcript yet); legacy joined yields
\* recording/50 and legacy failed yields failed/0.
C15_Legacy ==
    CanDeliver =>
    \A e \in PlainEvents : \A env \in EnvsFor(e) :
        LET id == ResolvedNonTerminal(e) IN
        id # 0 =>
            LET post == After(e, env) IN
            /\ (e.type = "notetaker.completed" /\ env.api = "ok")
                   => post[id].status = "completed" /\ Percentage(post[id]) = 100
            /\ (e.type = "notetaker.completed" /\ env.api = "empty")
                   => post[id].status = "processing" /\ Percentage(post[id]) = 90
            /\ e.type = "notetaker.joined"
                   => post[id].status = "recording" /\ Percentage(post[id]) = 50
            /\ e.type = "notetaker.failed"
                   => post[id].status = "failed" /\ Percentage(post[id]) = 0

\* C16: creation scenario - addMeeting stores a meeting with status pending,
\* percentage 0 and no notetakerId; when the deployment answers with bot id
\* b, the stored meeting has notetakerId b, status joining and percentage 20.
C16_Creation ==
    [][/\ Len(meetings') = Len(meetings) + 1
            => LET m == meetings'[Len(meetings')] IN
               m.status = "pending" /\ Percentage(m) = 0 /\ m.notetakerId = Null
       /\ \A id \in deploying :
            (id \notin deploying' /\ issued' # issued)
                => /\ meetings'[id].notetakerId \in issued' \ issued
                   /\ meetings'[id].status = "joining"
                   /\ Percentage(meetings'[id]) = 20]_vars

\* C16 witness: a deployed meeting is joining at 20 with the bot id issued
\* to it, and the create call has been answered.
C16_Witness ==
    \E i \in Ids(meetings) :
        /\ i \notin deploying /\ response.code = 201
        /\ meetings[i].notetakerId \in issued
        /\ meetings[i].status = "joining"
        /\ meetings[i].progress = Progress(<<"Bot deployed. Joining meeting...">>, 20)

\* C17: dispatch failure at creation - when the deployment throws, the
\* create call still answers 201, the meeting stays stored, and its record
\* has status failed with a progress message carrying the deployment error
\* and percentage 0.
C17_DispatchFailure ==
    [][\A id \in deploying :
          (id \notin deploying' /\ issued' = issued)
              => /\ response'.code = 201
                 /\ Len(meetings') = Len(meetings)
                 /\ meetings'[id].status = "failed"
                 /\ Mentions(meetings'[id].progress.message, "Failed to deploy notetaker")
                 /\ Percentage(meetings'[id]) = 0]_vars

\* C17 witness: a meeting whose deployment threw is stored as failed with
\* the error message at 0, and the create call was answered with 201.
C17_Witness ==
    \E i \in Ids(meetings) :
        /\ i \notin deploying /\ response.code = 201
        /\ meetings[i].status = "failed"
        /\ meetings[i].progress = Progress(<<"Error: ", "Failed to deploy notetaker">>, 0)

\* C18: creation response - the meeting in the response of the create call
\* equals the stored record at response time: joining with 20 after a
\* successful deployment, failed after a failed one.
C18_CreationResponse ==
    [][\A id \in deploying :
          id \notin deploying'
              => /\ response'.body[1].status = meetings'[id].status
                 /\ response'.body[1].progress = meetings'[id].progress]_vars

\* A session getMeetingStatus polls the dispatch client for.
Polled(m) == m.notetakerId # Null /\ m.status \notin Terminal

\* C19: resync failures are swallowed - for getMeetingStatus on a
\* non-terminal meeting with a notetakerId, when the status poll throws
\* (timeout, gateway or any other error) the request answers 200 with the
\* stored meeting and no meeting record changes.
C19_ResyncFailureSwallowed ==
    [][(/\ request'.op = "getMeetingStatus" /\ deploying' = deploying
        /\ request'.poll \in PollFailures
        /\ request'.id \in Ids(meetings) /\ Polled(meetings[request'.id]))
           => /\ meetings' = meetings
              /\ response' = Response(200, <<>>, <<meetings[request'.id]>>)]_vars

\* C19 witness: the last request was a getMeetingStatus whose poll timed
\* out, for a joining meeting with a bot, and it was answered 200 with the
\* stored meeting.
C19_Witness ==
    /\ request.op = "getMeetingStatus" /\ request.poll = "timeout"
    /\ request.id \in Ids(meetings)
    /\ Polled(meetings[request.id]) /\ meetings[request.id].status = "joining"
    /\ response = Response(200, <<>>, <<meetings[request.id]>>)

NotFound(res) == res.code = 404 /\ res.error = <<"Meeting not found">>

NotReady(res) ==
    res.code = 404
    /\ res.error = <<"Note not available yet. Meeting may still be in progress.">>

\* C20: getMeetingNote outcomes - the answer is NotFound exactly when no
\* meeting has the id, NotReady exactly when the meeting exists and its note
\* is unset, and the stored note otherwise; the two refusals differ, and the
\* request changes no meeting.
C20_NoteOutcomes ==
    [][(request'.op = "getMeetingNote" /\ deploying' = deploying)
           => LET id  == request'.id
                  res == response'
              IN  /\ meetings' = meetings
                  /\ NotFound(res) <=> id \notin Ids(meetings)
                  /\ NotReady(res) <=> (id \in Ids(meetings) /\ meetings[id].note = NoNote)
                  /\ ~(NotFound(res) /\ NotReady(res))
                  /\ (~NotFound(res) /\ ~NotReady(res))
                         => /\ res.code = 200
                            /\ res.body[1].note = Json(meetings[id].note)]_vars

\* C20 witness: the last request was a getMeetingNote for a meeting with a
\* note, answered 200, while another stored meeting without note exists.
C20_Witness ==
    /\ request.op = "getMeetingNote" /\ request.id \in Ids(meetings)
    /\ meetings[request.id].note # NoNote
    /\ response.code = 200
    /\ \E j \in Ids(meetings) : meetings[j].note = NoNote

\* C21: the list of meetings holds every stored meeting, ordered by creation
\* time with the most recent first, with either store.
C21_ListNewestFirst ==
    LET list == getAllMeetingsResponse(meetings).body[1].meetings IN
    /\ Len(list) = Len(meetings)
    /\ \A k \in 1..(Len(list) - 1) : list[k].id > list[k + 1].id

\* ---------------------------------------------------------------------------
\* The note generator (src/src/services/noteGenerator.js).
\*
\* A transcript document is absent (null), or a record whose `transcript`
\* field is absent, a list of segments, or a text (documents of type raw).
\* A segment is an object with optional speaker, text and end, or null.

MaxSegments == 2

Speakers == {"Ada", Null}
Texts == {"hello", Null}
Ends == {0, 1500}

NullSegment == [isObject |-> FALSE, speaker |-> Null, text |-> Null, end |-> 0]

Segments ==
    [isObject : {TRUE}, speaker : Speakers, text : Texts, end : Ends]
        \cup {NullSegment}

SegmentLists ==
    UNION {[1..n -> Segments] : n \in 0..MaxSegments}

NoDocument == [present |-> FALSE, shape |-> "absent", segments |-> <<>>]

TranscriptDocuments ==
    {NoDocument}
        \cup {[present |-> TRUE, shape |-> "absent", segments |-> <<>>]}
        \cup {[present |-> TRUE, shape |-> "text", segments |-> <<>>]}
        \cup {[present |-> TRUE, shape |-> "list", segments |-> l] : l \in SegmentLists}

\* What the language model call does: answers with JSON, answers with JSON
\* wrapped in markdown, times out, is over quota, answers with no content,
\* answers with text that holds no JSON.
LlmOutcomes == {"json", "wrapped", "timeout", "quota", "no_content", "malformed"}

\* const segments = transcript?.transcript || [];
\* if (!transcript || segments.length === 0) return {...}
IsEmptyTranscript(t) ==
    \/ ~t.present
    \/ t.shape = "absent"
    \/ t.shape = "list" /\ t.segments = <<>>

EmptyNote ==
    [summary |-> <<"No transcript available.">>, keyPoints |-> <<>>,
     participants |-> {}, duration |-> 0, generatedBy |-> Null]

Returned(note, llmCalled) == [raised |-> FALSE, note |-> note, llmCalled |-> llmCalled]
Raised(llmCalled) == [raised |-> TRUE, note |-> NoNote, llmCalled |-> llmCalled]

\* segments.map / segments.forEach over the segments, reading segment.text
\* and segment.speaker: a TypeError when `segments` is a text (no map, no
\* forEach) or when a segment is null.
ReadsSegments(t) ==
    /\ t.shape = "list"
    /\ \A k \in 1..Len(t.segments) : t.segments[k].isObject

RECURSIVE FullText(_)
FullText(segments) ==
    IF segments = <<>> THEN <<>>
    ELSE LET text == Head(segments).text IN
         (IF text = Null THEN <<"">> ELSE <<text>>) \o FullText(Tail(segments))

ParticipantsOf(segments) ==
    {segments[k].speaker : k \in {j \in 1..Len(segments) : segments[j].speaker # Null}}

\* Math.round(lastSegment.end / 1000), 0 when end is 0 or missing.
DurationOf(segments) ==
    LET lastSegment == segments[Len(segments)] IN
    IF lastSegment.end # 0 THEN (lastSegment.end + 500) \div 1000 ELSE 0

\* The texts of Texts are shorter than 20 characters, so that no sentence
\* passes the key point filter and the summary is not truncated.
generateBasicNote(t, llmCalled) ==
    IF IsEmptyTranscript(t) THEN Returned(EmptyNote, llmCalled)
    ELSE IF ~ReadsSegments(t) THEN Raised(llmCalled)
    ELSE Returned([summary |-> FullText(t.segments),
                   keyPoints |-> <<"No specific key points identified.">>,
                   participants |-> ParticipantsOf(t.segments),
                   duration |-> DurationOf(t.segments),
                   generatedBy |-> "basic"], llmCalled)

\* Faulty variant: the language model is asked before the transcript is
\* looked at.
generateNoteWithLLMAlwaysAsking(t, llm) ==
    IF llm \in {"json", "wrapped"}
    THEN Returned([summary |-> <<"summary by the language model">>,
                   keyPoints |-> <<"key points by the language model">>,
                   participants |-> {}, duration |-> 0,
                   generatedBy |-> "openai"], TRUE)
    ELSE generateBasicNote(t, TRUE)

generateNoteWithLLM(t, llm) ==
    IF IsEmptyTranscript(t) THEN Returned(EmptyNote, FALSE)
    \* formatTranscriptForLLM, participants, duration and word count are
    \* computed before the try block.
    ELSE IF ~ReadsSegments(t) THEN Raised(FALSE)
    ELSE IF llm \in {"json", "wrapped"}
    THEN Returned([summary |-> <<"summary by the language model">>,
                   keyPoints |-> <<"key points by the language model">>,
                   participants |-> ParticipantsOf(t.segments),
                   duration |-> DurationOf(t.segments),
                   generatedBy |-> "openai"], TRUE)
    ELSE generateBasicNote(t, TRUE)

\* generateNote with the language model configured or not.
generateNoteResult(t, openai, llm) ==
    IF openai THEN generateNoteWithLLM(t, llm) ELSE generateBasicNote(t, FALSE)

GeneratorCalls ==
    [transcript : TranscriptDocuments, openai : BOOLEAN, llm : LlmOutcomes,
     result : {<<>>}]

GeneratorInit ==
    /\ meetings = <<>>
    /\ deploying = {}
    /\ issued = {}
    /\ useDatabase \in BOOLEAN
    /\ nEvents = 0
    /\ response = NoResponse
    /\ request = NoRequest
    /\ inflight = <<>>
    /\ before = <<>>
    /\ generator \in GeneratorCalls
    /\ store = EmptyStore

Generate ==
    /\ generator.result = <<>>
    /\ generator' = [generator EXCEPT
            !.result = generateNoteResult(generator.transcript, generator.openai,
                                          generator.llm)]
    /\ UNCHANGED <<meetings, deploying, issued, useDatabase, nEvents, response,
                   request, inflight, before, store>>

GeneratorNext == Generate

GeneratorSpec == GeneratorInit /\ [][GeneratorNext]_vars

Generated == generator.result # <<>>

\* C24: the generator never raises, and when the enriched strategy fails the
\* result is the basic strategy's result for the same transcript.
C24_NeverRaises ==
    Generated =>
        /\ ~generator.result.raised
        /\ (generator.openai /\ generator.llm \notin {"json", "wrapped"}) =>
               generator.result.note =
                   generateBasicNote(generator.transcript, FALSE).note

\* C25: a transcript that is absent or has zero segments yields the summary
\* 'No transcript available.', no key points, no participants and duration 0,
\* with either strategy and without a call of the language model.
C25_EmptyTranscript ==
    (Generated /\ IsEmptyTranscript(generator.transcript)) =>
        /\ ~generator.result.raised
        /\ generator.result.note.summary = <<"No transcript available.">>
        /\ generator.result.note.keyPoints = <<>>
        /\ generator.result.note.participants = {}
        /\ generator.result.note.duration = 0
        /\ ~generator.result.llmCalled

C25_Witness ==
    /\ Generated
    /\ generator.openai
    /\ generator.llm = "json"
    /\ generator.transcript = [present |-> TRUE, shape |-> "list", segments |-> <<>>]
    /\ generator.result.note = EmptyNote

\* ---------------------------------------------------------------------------
\* The webhook receiver, store call by store call.
\*
\* `inflight` holds the deliveries the receiver has taken: the event, what
\* the dispatch client answers during it, the store calls and fetches still
\* to come (`ops`), the meeting the last lookup resolved (`id`, 0 for none),
\* whether the 200 response was sent (`acked`), the number of record updates
\* applied (`writes`), whether another delivery was unfinished at receipt
\* (`concurrent`) and whether a rejection without handler was raised
\* (`raised`).  `before` is the store at the first receipt.

Op(kind, updates) == [kind |-> kind, updates |-> updates]

\* await meetingService.findByNotetakerId(notetakerId) of the two helpers:
\* a miss skips the write that follows.
Lookup == Op("lookup", <<>>)

\* findByNotetakerId of handleMeetingCompleted: a miss returns.
FindOrReturn == Op("findOrReturn", <<>>)

\* getAllMeetings and the two finds of case 'notetaker.created'.
FindCreated == Op("findCreated", <<>>)

\* await meetingService.updateMeeting(meeting.id, updates)
Write(updates) == Op("write", updates)

\* await meetingService.updateProgress(meeting.id, message, percentage)
WriteProgress(message, percentage) == Write([progress |-> Progress(message, percentage)])

\* await nylasService.getTranscript(notetakerId)
Fetch == Op("fetch", <<>>)

\* const note = generateNote(transcript), not awaited.
CallGenerateNote == Op("generate", <<>>)

\* The status and the progress a handler writes for an event whose meeting
\* is found, read off the handler applied to a store of one meeting: each
\* is written by its own helper, a lookup followed by an update.
RowOps(e, env) ==
    LET probe == <<[NewMeeting("g1") EXCEPT !.notetakerId = e.notetakerId,
                                             !.status = "unwritten",
                                             !.progress = Progress(<<"unwritten">>, 0)]>>
        post  == processWebhookEvent(probe, e, env).ms[1]
    IN  (IF post.status # "unwritten"
         THEN <<Lookup, Write([status |-> post.status])>> ELSE <<>>)
        \o (IF post.progress.message # <<"unwritten">>
            THEN <<Lookup, Write([progress |-> post.progress])>> ELSE <<>>)

\* handleMeetingCompleted after its lookup.
CompletedOps ==
    <<FindOrReturn, WriteProgress(<<"Meeting completed. Generating note...">>, 90), Fetch>>

\* handleMeetingCompleted after a transcript was fetched.
TranscriptOps(doc) ==
    <<Write([transcript |-> doc]), CallGenerateNote,
      Write([note |-> generateNote(doc), status |-> "completed"]),
      WriteProgress(<<"Note generated successfully!">>, 100)>>

\* case 'notetaker.created' when a meeting was resolved.
CreatedOps(notetakerId) ==
    <<FindCreated,
      Write([status |-> "joining", notetakerId |-> notetakerId]),
      WriteProgress(<<"Notetaker created. Waiting to join meeting...">>, 20)>>

\* case 'notetaker.created' when no meeting was resolved: the two helpers.
CreatedFallbackOps(notetakerId) ==
    <<Lookup, Write([status |-> "joining", notetakerId |-> notetakerId]),
      Lookup, WriteProgress(<<"Notetaker created. Waiting to join meeting...">>, 20)>>

\* The calls processWebhookEvent makes for an event.  A payload without
\* data throws before any call; without a notetaker id every handler
\* returns before its first update; handleMediaAvailable ends in
\* handleMeetingCompleted (its unawaited getAllMeetings).
Ops(e, env) ==
    IF ~e.hasData \/ e.notetakerId = Null THEN <<>>
    ELSE CASE e.type = "notetaker.created" -> CreatedOps(e.notetakerId)
           [] e.type \in {"notetaker.media", "notetaker.completed"} -> CompletedOps
           [] OTHER -> RowOps(e, env)

\* The meeting case 'notetaker.created' resolves, or 0.
ResolveCreated(ms, notetakerId, grantId) ==
    LET order   == GetAllMeetings(ms)
        byGrant == Find(order, {i \in Ids(ms) : ms[i].notetakerId = Null
                                                /\ grantId # Null
                                                /\ ms[i].grantId = grantId})
        byId    == Find(order, {i \in Ids(ms) : ms[i].notetakerId = notetakerId})
    IN  IF byGrant # 0 THEN byGrant ELSE byId

\* The transcript documents the dispatch client answers with.
Content(doc) ==
    IF doc = RawTranscript
    THEN [present |-> TRUE, shape |-> "text", segments |-> <<>>]
    ELSE [present |-> TRUE, shape |-> "list",
          segments |-> <<[isObject |-> TRUE, speaker |-> "Ada", text |-> "hello",
                          end |-> 1500]>>]

\* The promise of generateNote(doc) rejects, whatever the configuration.
Rejects(doc) ==
    \A openai \in BOOLEAN, llm \in LlmOutcomes :
        generateNoteResult(Content(doc), openai, llm).raised

\* One call of a delivery against the store: the delivery and the store
\* after it.
Exec(d, ms) ==
    LET op   == Head(d.ops)
        rest == Tail(d.ops)
    IN
    CASE op.kind = "lookup" ->
           [d  |-> [d EXCEPT !.id = FindByNotetakerId(ms, d.e.notetakerId), !.ops = rest],
            ms |-> ms]
      [] op.kind = "findOrReturn" ->
           LET id == FindByNotetakerId(ms, d.e.notetakerId) IN
           [d  |-> [d EXCEPT !.id = id, !.ops = IF id = 0 THEN <<>> ELSE rest],
            ms |-> ms]
      [] op.kind = "findCreated" ->
           LET id == ResolveCreated(ms, d.e.notetakerId, d.e.grantId) IN
           [d  |-> [d EXCEPT !.id = id,
                             !.ops = IF id = 0 THEN CreatedFallbackOps(d.e.notetakerId)
                                     ELSE rest],
            ms |-> ms]
      [] op.kind = "write" ->
           IF d.id = 0 THEN [d |-> [d EXCEPT !.ops = rest], ms |-> ms]
           ELSE [d  |-> [d EXCEPT !.ops = rest, !.writes = @ + 1],
                 ms |-> UpdateMeeting(ms, d.id, op.updates)]
      [] op.kind = "fetch" ->
           [d  |-> [d EXCEPT !.ops =
                       CASE d.env.api = "throw" -> <<WriteProgress(<<"Error generating note">>, 0)>>
                         [] d.env.api = "empty" -> <<>>
                         [] OTHER -> TranscriptOps(d.env.doc)],
            ms |-> ms]
      [] OTHER ->
           [d  |-> [d EXCEPT !.ops = rest, !.raised = Rejects(d.env.doc)],
            ms |-> ms]

\* A call that completes without the event loop taking another request:
\* the call of generateNote, and every call of the in-memory store (its
\* awaits resolve as microtasks).  Calls of the database and of the
\* dispatch client are network requests.
Immediate(op) ==
    \/ op.kind = "generate"
    \/ ~useDatabase /\ op.kind # "fetch"

\* The calls of a delivery up to its next network request (y is x,
\* evaluated once).
RECURSIVE Run(_)
Run(x) ==
    CHOOSE r \in {IF y.d.ops = <<>> \/ ~Immediate(Head(y.d.ops)) THEN y
                  ELSE Run(Exec(y.d, y.ms)) : y \in {x}} : TRUE

Unfinished(d) == d.ops # <<>>

\* The deliveries of the step-by-step receiver.
ConcurrentEvents ==
    {Event("notetaker.created", "b1", "g1", Null, Null, Null),
     Event("notetaker.meeting_state", "b1", "g1", "recording_active", Null, Null),
     Event("notetaker.media", "b1", "g1", "available", Null, Null),
     MalformedEvent}

\* What the dispatch client answers during a delivery, and what the
\* runtime does with a rejection that has no handler: it ends the process
\* (`exit`, the default of Node since version 15) or it only warns.
ConcurrentEnvs(e) ==
    IF e.type = "notetaker.media"
    THEN {[url |-> "ok", api |-> "ok", doc |-> ApiTranscript, exit |-> FALSE],
          [url |-> "ok", api |-> "ok", doc |-> RawTranscript, exit |-> FALSE],
          [url |-> "ok", api |-> "ok", doc |-> RawTranscript, exit |-> TRUE],
          [url |-> "ok", api |-> "throw", doc |-> ApiTranscript, exit |-> FALSE]}
    ELSE {[url |-> "ok", api |-> "ok", doc |-> ApiTranscript, exit |-> FALSE]}

\* The process has ended on a rejection without handler: the calls that
\* were waiting for the network are never resumed.
Exited ==
    \E k \in 1..Len(inflight) : inflight[k].raised /\ inflight[k].env.exit

Delivery(e, env, acked) ==
    [e |-> e, env |-> env, ops |-> Ops(e, env), id |-> 0, acked |-> acked,
     writes |-> 0, concurrent |-> \E k \in 1..Len(inflight) : Unfinished(inflight[k]),
     raised |-> FALSE]

\* Faulty variant: the response is left for the end of the processing.
ReceiveUnacknowledged(e, env) ==
    LET x == Run([d |-> Delivery(e, env, FALSE), ms |-> meetings]) IN
    /\ CanDeliver
    /\ ~Exited
    /\ inflight' = Append(inflight, x.d)
    /\ meetings' = x.ms
    /\ before' = IF inflight = <<>> THEN meetings ELSE before
    /\ nEvents' = nEvents + 1
    /\ response' = NoResponse
    /\ UNCHANGED <<deploying, issued, useDatabase, request, generator, store>>

\* router.post('/nylas'): the 200 response, then the call of
\* processWebhookEvent, which runs up to its first network request.
Receive(e, env) ==
    LET x == Run([d |-> Delivery(e, env, TRUE), ms |-> meetings]) IN
    /\ CanDeliver
    /\ ~Exited
    /\ inflight' = Append(inflight, x.d)
    /\ meetings' = x.ms
    /\ before' = IF inflight = <<>> THEN meetings ELSE before
    /\ nEvents' = nEvents + 1
    /\ response' = Response(200, <<>>, <<[received |-> TRUE]>>)
    /\ UNCHANGED <<deploying, issued, useDatabase, request, generator, store>>

\* A network request of a delivery completes and its processing goes on to
\* the next one.
Step(k) ==
    LET x == Run(Exec(inflight[k], meetings)) IN
    /\ ~Exited
    /\ Unfinished(inflight[k])
    /\ inflight' = [inflight EXCEPT ![k] = x.d]
    /\ meetings' = x.ms
    /\ UNCHANGED <<deploying, issued, useDatabase, nEvents, response, request,
                   before, generator, store>>

\* Meetings are created and their notetakers deployed before the deliveries
\* start.
Setup ==
    /\ inflight = <<>>
    /\ (AddMeeting \/ DeploySucceeded)

ReceiveAny == \E e \in ConcurrentEvents : \E env \in ConcurrentEnvs(e) : Receive(e, env)

StepAny == \E k \in 1..Len(inflight) : Step(k)

ReceiverNext == Setup \/ ReceiveAny \/ StepAny

ReceiverSpec == Init /\ [][ReceiverNext]_vars

\* The event loop resumes a call whose network request has completed.
FairReceiverSpec == ReceiverSpec /\ WF_vars(StepAny)

\* Every delivery is at rest.
Quiet == \A k \in 1..Len(inflight) : ~Unfinished(inflight[k])

\* C22: the 200 response of a delivery is sent before the delivery modifies
\* a record and whether or not its processing fails, and no delivery is
\* scheduled again: the deliveries taken are the POSTs received, one each.
C22_AckBeforeProcessing ==
    /\ \A k \in 1..Len(inflight) : inflight[k].acked
    /\ Len(inflight) = nEvents
    /\ inflight # <<>> => response = Response(200, <<>>, <<[received |-> TRUE]>>)

\* A delivery whose transcript fetch failed modified its meeting after the
\* response was sent.
C22_Witness ==
    \E k \in 1..Len(inflight) :
        /\ inflight[k].acked
        /\ inflight[k].env.api = "throw"
        /\ ~Unfinished(inflight[k])
        /\ inflight[k].writes = 2
        /\ meetings[inflight[k].id].progress = Progress(<<"Error generating note">>, 0)

\* C23: the asynchronous processing of a delivery ends without an uncaught
\* exception or a rejection that has no handler, whatever the event and
\* whatever fails during it.
C23_NeverEscapes ==
    \A k \in 1..Len(inflight) : ~inflight[k].raised

\* C27: once the transcript of a meeting is set, no later delivery changes
\* it.
C27_TranscriptSetOnce ==
    [][\A i \in Ids(meetings) :
          meetings[i].transcript # Null =>
              meetings'[i].transcript = meetings[i].transcript]_vars

\* C29: a delivery applies its status and its progress in one record
\* update.
C29_SingleUpdate ==
    \A k \in 1..Len(inflight) : inflight[k].writes <= 1

\* C30: two concurrent deliveries of the same event leave the records that
\* a single delivery of the event leaves, whatever the interleaving of
\* their store calls.
C30_ConcurrentDuplicates ==
    (/\ Len(inflight) = 2
     /\ Quiet
     /\ inflight[2].concurrent
     /\ inflight[1].e = inflight[2].e
     /\ inflight[1].env = inflight[2].env)
        => meetings = processWebhookEvent(before, inflight[1].e, inflight[1].env).ms

\* C26: a meeting that is completed has a note, a meeting that has a note
\* has a transcript, and a note is stored only in a step that leaves the
\* meeting completed.
C26_SummaryInvariant ==
    /\ [](\A i \in Ids(meetings) :
            /\ meetings[i].status = "completed" => meetings[i].note # NoNote
            /\ meetings[i].note # NoNote => meetings[i].transcript # Null)
    /\ [][\A i \in Ids(meetings) :
            (meetings[i].note = NoNote /\ meetings'[i].note # NoNote)
                => meetings'[i].status = "completed"]_vars

\* A delivery fetched the transcript and stored the note of a meeting.
C26_Witness ==
    \E i \in Ids(meetings) :
        /\ meetings[i].status = "completed"
        /\ meetings[i].transcript = ApiTranscript
        /\ meetings[i].note = generateNote(ApiTranscript)

\* C28: a notetakerId that is set is never cleared, and a created event
\* whose notetaker id no meeting holds (so that only the account can
\* resolve it) leaves every meeting that has a notetakerId as it is.
C28_BotIdKept ==
    /\ [][\A i \in Ids(meetings) :
            meetings[i].notetakerId # Null => meetings'[i].notetakerId # Null]_vars
    /\ [](CanDeliver =>
            \A e \in CreatedEvents :
                (/\ e.notetakerId # Null
                 /\ \A j \in Ids(meetings) : meetings[j].notetakerId # e.notetakerId)
                    => LET post == After(e, [url |-> "ok", api |-> "ok", doc |-> ApiTranscript]) IN
                       \A i \in Ids(meetings) :
                           meetings[i].notetakerId # Null => post[i] = meetings[i])

\* With the table as store, a created event for b2 was resolved by account
\* to the unassigned meeting 2 and not to meeting 1, which holds b1.
C28_Witness ==
    /\ useDatabase /\ Len(meetings) = 2 /\ nEvents = 1
    /\ meetings[1].notetakerId = "b1"
    /\ meetings[1].progress.message # <<"Notetaker created. Waiting to join meeting...">>
    /\ meetings[2].notetakerId = "b2"
    /\ meetings[2].progress.message = <<"Notetaker created. Waiting to join meeting...">>

\* C32: no two meetings hold the same notetakerId.
C32_BotUnique ==
    \A i, j \in Ids(meetings) :
        (i # j /\ meetings[i].notetakerId # Null)
            => meetings[i].notetakerId # meetings[j].notetakerId

\* C34: a meeting that is completed has percentage 100, whichever path
\* completed it.
C34_CompletedMeans100 ==
    \A i \in Ids(meetings) :
        meetings[i].status = "completed" => Percentage(meetings[i]) = 100

\* C35: a run of the completion sequence for a meeting that is found ends
\* with the meeting completed at 100 or with the progress message of the
\* failed generation, also when the transcript fetched is empty.
C35_DefiniteOutcome ==
    CanDeliver =>
    \A e \in {x \in MediaEvents : x.state = "available"}
                \cup {x \in PlainEvents : x.type = "notetaker.completed"} :
        \A env \in EnvsFor(e) :
            LET id == FindByNotetakerId(meetings, e.notetakerId)
                post == After(e, env)
            IN  id # 0 =>
                  \/ post[id].status = "completed" /\ Percentage(post[id]) = 100
                  \/ post[id].progress.message = <<"Error generating note">>

\* The order of the statuses of a meeting that is not failed.
Rank(status) ==
    CASE status = "pending" -> 0
      [] status = "joining" -> 1
      [] status = "recording" -> 2
      [] status = "processing" -> 3
      [] status = "completed" -> 4
      [] OTHER -> 5

\* C36: when a created event has linked a notetaker to a meeting whose
\* deployment is still awaited, the writes that follow the answer of the
\* deployment keep that notetakerId and do not move the status backwards.
C36_CreationRace ==
    [][\A id \in deploying :
          (id \notin deploying' /\ issued' # issued /\ meetings[id].notetakerId # Null)
              => /\ meetings'[id].notetakerId = meetings[id].notetakerId
                 /\ Rank(meetings'[id].status) >= Rank(meetings[id].status)]_vars

\* C38: a stored note is the finished result of the generator for the stored
\* transcript, not a pending or emptied value.
C38_StoredNoteIsResult ==
    \A i \in Ids(meetings) :
        meetings[i].note # NoNote =>
            /\ meetings[i].note.kind \notin {"promise", "urls_only"}
            /\ meetings[i].note.of = meetings[i].transcript

\* C33: a status that a delivery set to completed or failed while a resync
\* was waiting for its poll is still there after the resync has written.
C33_ResyncKeepsTerminal ==
    [][(request.op = "polling" /\ request'.op = "getMeetingStatus"
        /\ meetings[request.id].status \in Terminal)
           => meetings'[request.id].status = meetings[request.id].status]_vars

\* ---------------------------------------------------------------------------
\* MeetingService over its two places (src/unnamed/part_005): the table
\* behind DatabaseService and the Map it falls back to.  A row of
\* `store.rows` is a meeting, the place that holds it and its updatedAt;
\* `store.clock` is the time, `store.call` the last call with its result.
\* `dbUp` tells whether the table answers during a call.

MaxCalls == 3

\* The columns updateMeeting of DatabaseService copies from `updates`.
DbColumns ==
    {"meetingUrl", "grantId", "status", "notetakerId", "transcript", "recording",
     "note", "progress"}

\* The updates the callers pass.
UpdateSamples ==
    <<[status |-> "joining", notetakerId |-> "b1"],
      [status |-> "failed"],
      [progress |-> Progress(<<"Recording in progress...">>, 70)],
      [transcript |-> ApiTranscript],
      [note |-> generateNote(ApiTranscript), status |-> "completed"]>>

StoreCall(op, id, dbUp, sample, returned) ==
    [op |-> op, id |-> id, dbUp |-> dbUp, sample |-> sample, returned |-> returned]

\* The place a call ends in: the table when it is configured and answers
\* with a row, the Map otherwise (not configured, the call throws, or, for
\* an update, .single() finds no row, which is an error as well).
InTable(st, id) == id \in 1..Len(st.rows) /\ st.rows[id].place = "table"
InMap(st, id) == id \in 1..Len(st.rows) /\ st.rows[id].place = "map"

\* createMeeting: the record goes to the table, or to the Map when the
\* table is not configured or the insert throws.
createMeeting(st, grantId, dbUp) ==
    LET now == st.clock + 1
        row == [place |-> IF useDatabase /\ dbUp THEN "table" ELSE "map",
                m |-> NewMeeting(grantId), updatedAt |-> now]
    IN  [rows |-> Append(st.rows, row), clock |-> now,
         call |-> StoreCall("createMeeting", Len(st.rows) + 1, dbUp, 0, TRUE)]

\* getMeeting: the row of the table, null when the table has none
\* (PGRST116); the Map when the table is not configured or throws.
getMeeting(st, id, dbUp) ==
    LET found == IF useDatabase /\ dbUp THEN InTable(st, id) ELSE InMap(st, id)
    IN  [rows |-> st.rows, clock |-> st.clock + 1,
         call |-> StoreCall("getMeeting", id, dbUp, 0, found)]

\* The record after an update: the spread of the Map branch, or the columns
\* of the table branch, whose trigger sets updated_at.
Updated(row, updates, now) ==
    LET copied == IF row.place = "table"
                  THEN [f \in DOMAIN updates \cap DbColumns |-> updates[f]]
                  ELSE updates
    IN  [row EXCEPT !.m = UpdateMeeting(<<row.m>>, 1, copied)[1], !.updatedAt = now]

\* updateMeeting: the update of the table; when the table is not
\* configured, throws or has no such row, the update of the Map, or null.
updateMeeting(st, id, sample, dbUp) ==
    LET now == st.clock + 1
        hit == IF useDatabase /\ dbUp /\ InTable(st, id) THEN TRUE ELSE InMap(st, id)
    IN  [rows |-> IF hit
                  THEN [st.rows EXCEPT ![id] = Updated(st.rows[id], UpdateSamples[sample], now)]
                  ELSE st.rows,
         clock |-> now,
         call |-> StoreCall("updateMeeting", id, dbUp, sample, hit)]

StoreCreate ==
    /\ Len(store.rows) < MaxMeetings
    /\ store.clock < MaxCalls
    /\ \E g \in Grants, dbUp \in BOOLEAN : store' = createMeeting(store, g, dbUp)
    /\ UNCHANGED <<meetings, deploying, issued, useDatabase, nEvents, response,
                   request, inflight, before, generator>>

StoreGet ==
    /\ store.clock < MaxCalls
    /\ \E id \in RequestIds, dbUp \in BOOLEAN : store' = getMeeting(store, id, dbUp)
    /\ UNCHANGED <<meetings, deploying, issued, useDatabase, nEvents, response,
                   request, inflight, before, generator>>

StoreUpdate ==
    /\ store.clock < MaxCalls
    /\ \E id \in RequestIds, k \in 1..Len(UpdateSamples), dbUp \in BOOLEAN :
           store' = updateMeeting(store, id, k, dbUp)
    /\ UNCHANGED <<meetings, deploying, issued, useDatabase, nEvents, response,
                   request, inflight, before, generator>>

StoreNext == StoreCreate \/ StoreGet \/ StoreUpdate

StoreSpec == Init /\ [][StoreNext]_vars

C37_ReadYourWrites ==
    (/\ store.call.op \in {"getMeeting", "updateMeeting"}
     /\ store.call.id \in 1..Len(store.rows)
     /\ store.call.dbUp)
        => store.call.returned

\* Another delivery names the notetaker or the meeting of delivery k.
Touched(k) ==
    \E j \in 1..Len(inflight) :
        /\ j # k
        /\ \/ inflight[j].e.notetakerId = inflight[k].e.notetakerId
           \/ inflight[j].id = inflight[k].id

\* C39: a media delivery whose meeting is found by its notetaker id and
\* whose transcript fetch answers with a transcript leads, under fair
\* scheduling of its steps and unless another delivery touches the meeting,
\* to the meeting being completed with note and transcript.
C39_CompletionLiveness ==
    \A k \in 1..MaxEvents :
        (/\ k <= Len(inflight)
         /\ inflight[k].e.type = "notetaker.media"
         /\ inflight[k].env.api = "ok"
         /\ inflight[k].id # 0)
            ~> (/\ k <= Len(inflight)
                /\ \/ Touched(k)
                   \/ /\ inflight[k].id \in Ids(meetings)
                      /\ meetings[inflight[k].id].status = "completed"
                      /\ meetings[inflight[k].id].note # NoNote
                      /\ meetings[inflight[k].id].transcript # Null)

====
